---- MODULE Spec2Model ----
(***************************************************************************)
(* Card Forge (src/main.ts): numbering of tagged notes, the card export    *)
(* pipeline (render, off-screen capture, asset write, card-image update),  *)
(* the batch render, the two interactive actions and the preview, as a     *)
(* state machine whose steps are the segments between two awaits.          *)
(*                                                                         *)
(* Text is a sequence of one-character strings.  A frontmatter value is a  *)
(* record [t, v]: t is the JavaScript type of the value ("undefined",      *)
(* "number", "string") and v its number, or for a string the number its    *)
(* decimal digits spell.                                                   *)
(***************************************************************************)
EXTENDS Integers, Sequences, FiniteSets, TLC

\* ---------------------------------------------------------------- bounds
\* notes in the vault, in getMarkdownFiles order
NumDocs == 3
\* command invocations in one behaviour (each takes one slot of proc)
MaxProcs == 2

\* files a vault listing given to getAllCards holds at most
MaxListing == 3
\* invocations of the preview's render in one behaviour
MaxRenders == 3

Docs == 1..NumDocs
Procs == 1..MaxProcs
Renders == 1..MaxRenders

\* ------------------------------------------------------ frontmatter values
Undef == [t |-> "undefined", v |-> 0]
Num(n) == [t |-> "number", v |-> n]
Str(n) == [t |-> "string", v |-> n]

\* ------------------------------------------------------------------- text
RECURSIVE Digits(_)
\* `${n}`: the decimal form of a non-negative integer
Digits(n) ==
  LET d == <<"0", "1", "2", "3", "4", "5", "6", "7", "8", "9">>[(n % 10) + 1]
  IN  IF n < 10 THEN <<d>> ELSE Digits(n \div 10) \o <<d>>

\* String.prototype.slice(-k)
SliceLast(s, k) == IF Len(s) <= k THEN s ELSE SubSeq(s, Len(s) - k + 1, Len(s))

\* the largest number that is padded, and the width it is padded to
PadLimit == 999
PadWidth == 3

PadNoSlice(n) == IF n <= PadLimit THEN <<"0", "0">> \o Digits(n) ELSE Digits(n)

\* n <= 999 ? `00${n}`.slice(-3) : `${n}`
PadNumber(n) == IF n <= PadLimit THEN SliceLast(<<"0", "0">> \o Digits(n), PadWidth) ELSE Digits(n)

\* String.prototype.toLowerCase, one character
LowerChar(c) ==
  CASE c = "A" -> "a" [] c = "B" -> "b" [] c = "C" -> "c" [] c = "D" -> "d"
    [] c = "E" -> "e" [] c = "F" -> "f" [] c = "G" -> "g" [] c = "H" -> "h"
    [] c = "I" -> "i" [] c = "J" -> "j" [] c = "K" -> "k" [] c = "L" -> "l"
    [] c = "M" -> "m" [] c = "N" -> "n" [] c = "O" -> "o" [] c = "P" -> "p"
    [] c = "Q" -> "q" [] c = "R" -> "r" [] c = "S" -> "s" [] c = "T" -> "t"
    [] c = "U" -> "u" [] c = "V" -> "v" [] c = "W" -> "w" [] c = "X" -> "x"
    [] c = "Y" -> "y" [] c = "Z" -> "z" [] OTHER -> c

ToLowerCase(s) == [i \in 1..Len(s) |-> LowerChar(s[i])]

\* s.replace(/ /g, "-")
ReplaceSpaces(s) == [i \in 1..Len(s) |-> IF s[i] = " " THEN "-" ELSE s[i]]

RECURSIVE FirstSpace(_, _)
FirstSpace(s, i) == IF i > Len(s) THEN 0 ELSE IF s[i] = " " THEN i ELSE FirstSpace(s, i + 1)

\* s.replace(" ", "-"): the first space only
ReplaceFirstSpace(s) ==
  LET k == FirstSpace(s, 1) IN [i \in 1..Len(s) |-> IF i = k THEN "-" ELSE s[i]]

RECURSIVE StripLeadingSlashes(_)
\* s.replace(/^\/+/, "")
StripLeadingSlashes(s) ==
  IF s # <<>> /\ Head(s) = "/" THEN StripLeadingSlashes(Tail(s)) ELSE s

\* s.startsWith(prefix)
StartsWith(s, prefix) == Len(s) >= Len(prefix) /\ SubSeq(s, 1, Len(prefix)) = prefix

\* s.replace(/^!/, "")
StripEmbed(s) == IF s # <<>> /\ Head(s) = "!" THEN Tail(s) ELSE s

\* ------------------------------------------------------------------ notes
\* The notes are fixed; only their frontmatter changes.  The first NumDocs
\* of them make up the vault the commands run on.
NumNotes == 7
Notes == 1..NumNotes

\* TFile.basename
Basename(d) ==
  CASE d = 1 -> <<"M", "y", " ", "C", "a", "r", "d">>
    [] d = 2 -> <<"A", " ", "B", " ", "C">>
    [] d = 3 -> <<"Z", "e", "d">>
    [] d = 4 -> <<"T", "o", "d", "o">>
    [] d = 6 -> <<"O", "l", "d">>
    [] d = 7 -> <<"C", "a", "p", "s">>
    [] OTHER -> <<"T", "p", "l">>

\* TFile.parent.path ("/" is the vault root)
ParentPath(d) ==
  CASE d = 2 -> <<"/">>
    [] d \in {1, 3, 4, 7} -> <<"n", "o", "t", "e", "s">>
    [] d = 6 -> <<"t", "e", "m", "p", "l", "a", "t", "e", "s", "-", "o", "l", "d">>
    [] OTHER -> <<"t", "e", "m", "p", "l", "a", "t", "e", "s">>

\* TFile.path
FilePath(d) ==
  StripLeadingSlashes(ParentPath(d) \o <<"/">>) \o Basename(d) \o <<".", "m", "d">>

\* frontmatter.tags
Tags(d) ==
  CASE d = 2 -> {"card", "deck"}
    [] d = 4 -> {"todo"}
    [] d = 7 -> {"Card", "cards"}
    [] OTHER -> {"card"}

\* frontmatter["card-type"]; <<>> when the note has none
CardType(d) ==
  CASE d = 1 -> <<"h", "e", "r", "o">>
    [] d = 3 -> <<>>
    [] OTHER -> <<"n", "p", "c">>

\* frontmatter["card-title"]; <<>> when the note has none
CardTitle(d) ==
  CASE d = 2 -> <<"A", "l", "p", "h", "a">>
    [] OTHER -> <<>>

\* DEFAULT_SETTINGS.cardTag, and the folder option of the host's templates plugin
DefaultCardTag == "card"
TemplateFolder == <<"t", "e", "m", "p", "l", "a", "t", "e", "s">>

\* ------------------------------------------------------------------ state
VARIABLES
  listing,               \* vault.getMarkdownFiles(): the notes of the vault, in order
  cardTag,               \* settings.cardTag
  templatesEnabled,      \* whether the host's templates plugin is enabled
  active,                \* CardForgePreview.active
  lastEditor,            \* CardForgePreview.lastEditor: its file, 0 when there is none
  contentEl,             \* the card the preview surface shows
  activeEditor,          \* workspace.activeEditor: its file, 0 when there is none
  renders,               \* the invocations of CardForgePreview.render
  fm,                    \* the notes' frontmatter on disk: card-number, card-image
  cache,                 \* metadataCache: the card-number it reports for each note
  assets,                \* the binary files of the vault: path -> bytes
  mounts,                \* render surfaces attached to document.body, by owner
  clipboard,             \* what navigator.clipboard holds
  attachmentFolderPath,  \* vault config "attachmentFolderPath"; <<>> when unset
  proc                   \* the command invocations: one record per slot

settingVars == <<listing, cardTag, templatesEnabled>>
previewVars == <<active, lastEditor, contentEl, activeEditor, renders>>
vars == <<fm, cache, assets, mounts, clipboard, attachmentFolderPath, proc,
          listing, cardTag, templatesEnabled,
          active, lastEditor, contentEl, activeEditor, renders>>

\* ----------------------------------------------------------- getAllCards
QualifiesAny(d) == TRUE

Qualifies(d) ==
  LET tag == IF cardTag = "" THEN DefaultCardTag ELSE cardTag
  IN  /\ ~(templatesEnabled /\ StartsWith(FilePath(d), TemplateFolder))
      /\ tag \in Tags(d)

RECURSIVE Filter(_, _)
Filter(files, i) ==
  IF i > Len(files) THEN <<>>
  ELSE (IF Qualifies(files[i]) THEN <<files[i]>> ELSE <<>>) \o Filter(files, i + 1)

\* the tagged notes outside the template folder, in getMarkdownFiles order
getAllCards == Filter(listing, 1)

NoImage == <<>>

\* -------------------------------------------------------------- renderCard
\* (metadata["card-title"] as string) || file.basename
HeaderText(d) == IF CardTitle(d) # <<>> THEN CardTitle(d) ELSE Basename(d)

\* rawNumber <= 999 ? `00${rawNumber}`.slice(-3) : `${rawNumber}`
PadDisplay(n) == IF n <= PadLimit THEN SliceLast(<<"0", "0">> \o Digits(n), PadWidth) ELSE Digits(n)

FooterNumberZero(rawNumber) ==
  PadDisplay(IF rawNumber.t = "number" THEN rawNumber.v ELSE 0)

\* the text of the footer's number region; <<>> when nothing is appended
FooterNumber(rawNumber) ==
  IF rawNumber.t # "undefined" /\ rawNumber.t = "number"
  THEN PadDisplay(rawNumber.v)
  ELSE <<>>

NoBytes == [doc |-> 0, title |-> <<>>, number |-> <<>>]
\* the card of a note as renderCard lays it out from the metadata it read,
\* and as the capture pictures it: the header text and the footer number
Bytes(d, val) == [doc |-> d, title |-> HeaderText(d), number |-> FooterNumber(val)]

\* A command invocation.  kind: which command; pc: the await it is suspended
\* at ("number", "render", "frame", "capture", "buffer", "write", "update",
\* "clip") or how it settled ("done", "rejected"); stage: the await that
\* rejected.  files, idx, nextNum: the locals of the two loops.  file, card,
\* data, frontmatter, path, mode: the locals of the export in progress.
\* notices: the notes a failure Notice was shown for (0: no target note).
\* pred, seen, fresh, assigned record history for the properties: the
\* commands settled when this one began, the cache a numbering run read,
\* whether that cache agreed with the disk, and the notes the run numbered.
IdleProc ==
  [kind |-> "idle", pc |-> "idle", files |-> <<>>, idx |-> 0, nextNum |-> 0,
   file |-> 0, card |-> NoBytes, data |-> "none", frontmatter |-> Undef,
   path |-> <<>>, mode |-> "none", notices |-> {}, stage |-> "none",
   pred |-> {}, seen |-> <<>>, fresh |-> FALSE, assigned |-> <<>>]

\* an invocation of the preview's render: pc is "idle", "render" while
\* renderCard is awaited, "done" once it returned; file and card are the
\* note it renders and the card renderCard built for it
IdleRender == [pc |-> "idle", file |-> 0, card |-> NoBytes]

\* a note without card-number and card-image
Blank == [number |-> Undef, image |-> NoImage]

\* the vault of the commands, under the default settings
MarkdownFiles == [i \in 1..NumDocs |-> i]

InitVault ==
  /\ listing = MarkdownFiles
  /\ cardTag = DefaultCardTag
  /\ templatesEnabled = TRUE

\* the preview before onOpen
InitPreview ==
  /\ active = FALSE
  /\ lastEditor = 0
  /\ contentEl = NoBytes
  /\ activeEditor = 0
  /\ renders = [r \in Renders |-> IdleRender]

\* values a note's card-number may hold before the plugin runs
InitNumbers == {Undef, Num(1), Num(3), Str(5)}
\* the fixed attachment folder of the vault
FixedFolder == <<"c", "a", "r", "d", "s">>

\* every tagged note carries any of the initial values; the cache is settled
Init ==
  /\ InitVault
  /\ InitPreview
  /\ \E f \in [Docs -> [number : InitNumbers, image : {NoImage}]] :
       fm = [d \in Notes |-> IF d \in Docs THEN f[d] ELSE Blank]
  /\ \A d \in Docs : ~Qualifies(d) => fm[d].number = Undef
  /\ cache = [d \in Notes |-> fm[d].number]
  /\ assets = <<>>
  /\ mounts = {}
  /\ clipboard = NoBytes
  /\ attachmentFolderPath = FixedFolder
  /\ proc = [p \in Procs |-> IdleProc]

\* the vault as an export finds it: the first note numbered or not, and the
\* cache possibly still reporting it as it was before it got its number
InitExport ==
  /\ InitVault
  /\ InitPreview
  /\ \E val \in {Undef, Num(3)} : fm = [d \in Notes |-> IF d = 1 THEN [Blank EXCEPT !.number = val] ELSE Blank]
  /\ \E val \in {fm[1].number, Undef} : cache = [d \in Notes |-> IF d = 1 THEN val ELSE Undef]
  /\ assets = <<>>
  /\ mounts = {}
  /\ clipboard = NoBytes
  /\ attachmentFolderPath = FixedFolder
  /\ proc = [p \in Procs |-> IdleProc]

\* the attachment settings: unset, a subfolder of the note's folder, a fixed folder
InitSettings == {<<>>, <<".", "/", "i", "m", "g">>, FixedFolder}
\* card-number values on both sides of the padding limit, and malformed ones
PathNumbers == {Undef, Num(0), Num(3), Num(7), Num(42), Num(999), Num(1000), Str(5)}

\* the vault as the path construction finds it, under every attachment setting
InitPath ==
  /\ InitVault
  /\ InitPreview
  /\ \E val \in PathNumbers :
       fm = [d \in Notes |-> IF d \in Docs THEN [Blank EXCEPT !.number = val] ELSE Blank]
  /\ cache = [d \in Notes |-> fm[d].number]
  /\ assets = <<>>
  /\ mounts = {}
  /\ clipboard = NoBytes
  /\ attachmentFolderPath \in InitSettings
  /\ proc = [p \in Procs |-> IdleProc]

\* the vault listings handed to getAllCards: notes in the vault's order
Listings ==
  {files \in UNION {[1..n -> Notes] : n \in 0..MaxListing} :
     \A i, j \in DOMAIN files : i < j => files[i] < files[j]}
\* values of the card tag setting; "" is the cleared text field
TagSettings == {"card", "", "todo"}

\* any small vault under any setting, none of its notes numbered
InitDiscover ==
  /\ listing \in Listings
  /\ cardTag \in TagSettings
  /\ templatesEnabled \in BOOLEAN
  /\ InitPreview
  /\ fm = [d \in Notes |-> Blank]
  /\ cache = [d \in Notes |-> Undef]
  /\ assets = <<>>
  /\ mounts = {}
  /\ clipboard = NoBytes
  /\ attachmentFolderPath = FixedFolder
  /\ proc = [p \in Procs |-> IdleProc]

\* the vaults of Init whose card-numbers are numbers, no two of them equal
InitDistinct ==
  /\ Init
  /\ \A d \in Notes : fm[d].number.t # "string"
  /\ \A d, e \in Notes :
       (d # e /\ fm[d].number.t = "number") => fm[d].number # fm[e].number

\* a vault of two tagged notes and one that is not tagged as a card
MixedFiles == <<1, 2, 4>>

\* that vault, its first note numbered or not, the cache settled
InitMixed ==
  /\ listing = MixedFiles
  /\ cardTag = DefaultCardTag
  /\ templatesEnabled = TRUE
  /\ InitPreview
  /\ \E val \in {Undef, Num(3)} :
       fm = [d \in Notes |-> IF d = 1 THEN [Blank EXCEPT !.number = val] ELSE Blank]
  /\ cache = [d \in Notes |-> fm[d].number]
  /\ assets = <<>>
  /\ mounts = {}
  /\ clipboard = NoBytes
  /\ attachmentFolderPath = FixedFolder
  /\ proc = [p \in Procs |-> IdleProc]

\* ----------------------------------------------------------- numberCards
PlusOneForgotten(val) == val.v

\* cardNum + 1 as JavaScript evaluates it: a sum for a number, a
\* concatenation read back as a number by Math.max for a string
PlusOne(val) == IF val.t = "string" THEN val.v * 10 + 1 ELSE val.v + 1

Max(a, b) == IF a >= b THEN a ELSE b

RECURSIVE SeedLoop(_, _, _, _)
\* the first loop: nextNum = Math.max(nextNum, cardNum + 1) over the cache
SeedLoop(files, i, view, nextNum) ==
  IF i > Len(files) THEN nextNum
  ELSE SeedLoop(files, i + 1, view,
                IF view[files[i]].t # "undefined"
                THEN Max(nextNum, PlusOne(view[files[i]]))
                ELSE nextNum)

AssignsAlways(meta) == TRUE

AssignsUnlessNumber(meta) == meta.number.t # "number"

\* the transform handed to processFrontMatter: TRUE when it assigns
Assigns(meta) == meta.number.t = "undefined"

\* the commands that have settled, normally or by rejection
Settled == {q \in Procs : proc[q].pc \in {"done", "rejected"}}

\* the lowest free slot takes the next command
FreeSlot(p) == proc[p].kind = "idle" /\ \A q \in Procs : q < p => proc[q].kind # "idle"

StartNumber(p) ==
  /\ FreeSlot(p)
  /\ LET files == getAllCards
     IN  proc' = [proc EXCEPT ![p] =
           [IdleProc EXCEPT !.kind = "number",
                            !.pc = IF files = <<>> THEN "done" ELSE "number",
                            !.files = files,
                            !.idx = 1,
                            !.nextNum = SeedLoop(files, 1, cache, 1),
                            !.pred = Settled,
                            !.seen = cache,
                            !.fresh = \A d \in Notes : cache[d] = fm[d].number]]
  /\ UNCHANGED <<fm, cache, assets, mounts, clipboard, attachmentFolderPath>>
  /\ UNCHANGED <<settingVars, previewVars>>

\* processFrontMatter(files[idx]) settles: the transform ran and the note
\* was written, or the host rejected (unreadable frontmatter, failed write)
NumberStep(p) ==
  /\ proc[p].kind = "number" /\ proc[p].pc = "number"
  /\ LET d == proc[p].files[proc[p].idx]
         last == proc[p].idx = Len(proc[p].files)
     IN  \/ /\ Assigns(fm[d])
            /\ fm' = [fm EXCEPT ![d].number = Num(proc[p].nextNum)]
            /\ proc' = [proc EXCEPT ![p].nextNum = @ + 1,
                                    ![p].idx = @ + 1,
                                    ![p].assigned = Append(@, d),
                                    ![p].pc = IF last THEN "done" ELSE "number"]
         \/ /\ ~Assigns(fm[d])
            /\ fm' = fm
            /\ proc' = [proc EXCEPT ![p].idx = @ + 1,
                                    ![p].pc = IF last THEN "done" ELSE "number"]
         \/ /\ fm' = fm
            /\ proc' = [proc EXCEPT ![p].pc = "rejected", ![p].stage = "number"]
  /\ UNCHANGED <<cache, assets, mounts, clipboard, attachmentFolderPath>>
  /\ UNCHANGED <<settingVars, previewVars>>

\* ------------------------------------------------- resolveAttachmentFolder
\* setting unset: the note's folder; "./x": x under the note's folder;
\* otherwise the setting itself.  hasParent is file.parent !== null.
resolveAttachmentFolder(setting, hasParent, parentPath) ==
  IF setting = <<>>
  THEN (IF hasParent THEN parentPath ELSE <<>>)
  ELSE IF StartsWith(setting, <<".", "/">>)
       THEN (IF hasParent
             THEN parentPath \o <<"/">> \o SubSeq(setting, 3, Len(setting))
             ELSE SubSeq(setting, 3, Len(setting)))
       ELSE setting

\* ------------------------------------------------------- renderCardToFile
Unknown == <<"u", "n", "k", "n", "o", "w", "n">>
CfPrefix == <<"/", "c", "f", "-">>
PngSuffix == <<".", "p", "n", "g">>

\* (frontmatter["card-type"] as string) || "unknown"
CfType(type) == IF type = <<>> THEN Unknown ELSE type

\* typeof rawNum === "number" ? rawNum : 0
CfNum(rawNum) == IF rawNum.t = "number" THEN rawNum.v ELSE 0

NormalizeFirstSpace(basename) == ReplaceFirstSpace(ToLowerCase(basename))

\* file.basename.toLowerCase().replace(/ /g, "-")
NormalizeName(basename) == ReplaceSpaces(ToLowerCase(basename))

\* `${attachments}/cf-${cf_type}-${cf_num_pad}-${name}.png`.replace(/^\/+/, "")
BuildPath(attachments, type, rawNum, basename) ==
  StripLeadingSlashes(
    attachments \o CfPrefix \o CfType(type) \o <<"-">> \o PadNumber(CfNum(rawNum))
                \o <<"-">> \o NormalizeName(basename) \o PngSuffix)

\* the destination of an export of note d that read rawNum from the cache
ExportPath(d, rawNum, setting) ==
  BuildPath(resolveAttachmentFolder(setting, TRUE, ParentPath(d)),
            CardType(d), rawNum, Basename(d))

\* app.vault.getFileByPath(path) !== null
FileExists(path) == \E i \in DOMAIN assets : assets[i].path = path

WriteModeCreate(path) == "create"

\* the branch taken at the exists-check: modifyBinary or createBinary
WriteMode(path) == IF FileExists(path) THEN "modify" ELSE "create"

\* fileManager.generateMarkdownLink(card, file.path): an embed of the image
generateMarkdownLink(path) == <<"!", "[", "[">> \o path \o <<"]", "]">>

ImageLinkEmbedded(path) == generateMarkdownLink(path)

\* the text stored in card-image
ImageLink(path) == StripEmbed(generateMarkdownLink(path))

\* the vault after bytes are written at path: replaced in place, or added
Written(path, bytes) ==
  IF FileExists(path)
  THEN [i \in DOMAIN assets |->
          IF assets[i].path = path THEN [path |-> path, bytes |-> bytes] ELSE assets[i]]
  ELSE Append(assets, [path |-> path, bytes |-> bytes])

\* renderCard up to its first await: the card is built from the cache
RenderCardSync(rec, d) ==
  [rec EXCEPT !.pc = "render", !.file = d, !.card = Bytes(d, cache[d]),
              !.data = "none", !.frontmatter = Undef, !.path = <<>>, !.mode = "none"]

\* renderCardToFile returned: the batch goes on to its next file
Returned(rec) ==
  IF rec.kind = "batch" /\ rec.idx < Len(rec.files)
  THEN [RenderCardSync(rec, rec.files[rec.idx + 1]) EXCEPT !.idx = rec.idx + 1]
  ELSE [rec EXCEPT !.pc = "done"]

\* a rejection inside renderCardToFile, as its caller handles it
Thrown(rec) == [rec EXCEPT !.pc = "rejected", !.stage = rec.pc]

\* currentEditorFile(): 0 when there is no active or last editor file
Targets == {listing[i] : i \in DOMAIN listing} \cup {0}

StartFile(p, target) ==
  /\ FreeSlot(p)
  /\ proc' = [proc EXCEPT ![p] =
       IF target = 0
       THEN [IdleProc EXCEPT !.kind = "file", !.pc = "done", !.notices = {0},
                             !.pred = Settled]
       ELSE RenderCardSync([IdleProc EXCEPT !.kind = "file", !.pred = Settled], target)]
  /\ UNCHANGED <<fm, cache, assets, mounts, clipboard, attachmentFolderPath>>
  /\ UNCHANGED <<settingVars, previewVars>>

StartClipboard(p, target) ==
  /\ FreeSlot(p)
  /\ proc' = [proc EXCEPT ![p] =
       IF target = 0
       THEN [IdleProc EXCEPT !.kind = "clipboard", !.pc = "done", !.notices = {0},
                             !.pred = Settled]
       ELSE RenderCardSync([IdleProc EXCEPT !.kind = "clipboard", !.pred = Settled],
                           target)]
  /\ UNCHANGED <<fm, cache, assets, mounts, clipboard, attachmentFolderPath>>
  /\ UNCHANGED <<settingVars, previewVars>>

StartBatch(p) ==
  /\ FreeSlot(p)
  /\ LET files == getAllCards
         rec == [IdleProc EXCEPT !.kind = "batch", !.files = files, !.idx = 1,
                                 !.pred = Settled]
     IN  proc' = [proc EXCEPT ![p] =
           IF files = <<>> THEN [rec EXCEPT !.pc = "done"]
           ELSE RenderCardSync(rec, files[1])]
  /\ UNCHANGED <<fm, cache, assets, mounts, clipboard, attachmentFolderPath>>
  /\ UNCHANGED <<settingVars, previewVars>>

\* renderCard resolved; renderCardToBlob attaches its mount and waits a frame
RenderDone(p) ==
  /\ proc[p].pc = "render"
  /\ mounts' = mounts \cup {p}
  /\ proc' = [proc EXCEPT ![p].pc = "frame"]
  /\ UNCHANGED <<fm, cache, assets, clipboard, attachmentFolderPath>>
  /\ UNCHANGED <<settingVars, previewVars>>

\* the frame passed; toBlob is called
FrameDone(p) ==
  /\ proc[p].pc = "frame"
  /\ proc' = [proc EXCEPT ![p].pc = "capture"]
  /\ UNCHANGED <<fm, cache, assets, mounts, clipboard, attachmentFolderPath>>
  /\ UNCHANGED <<settingVars, previewVars>>

UnmountedOnSuccess(p, outcome) == IF outcome = "blob" THEN mounts \ {p} ELSE mounts

\* the mounts after the finally block of renderCardToBlob, however toBlob ended
Unmounted(p, outcome) == mounts \ {p}

\* toBlob settled with a blob, with null, or rejected; finally runs
CaptureDone(p, outcome) ==
  /\ proc[p].pc = "capture"
  /\ mounts' = Unmounted(p, outcome)
  /\ LET rec == proc[p]
     IN  proc' = [proc EXCEPT ![p] =
           CASE outcome = "throw" -> Thrown(rec)
             [] outcome = "null" /\ rec.kind = "clipboard" ->
                  [rec EXCEPT !.pc = "done", !.data = "null",
                              !.notices = @ \cup {rec.file}]
             [] outcome = "blob" /\ rec.kind = "clipboard" ->
                  [rec EXCEPT !.pc = "clip", !.data = "blob"]
             [] OTHER -> [rec EXCEPT !.pc = "buffer", !.data = outcome]]
  /\ UNCHANGED <<fm, cache, assets, clipboard, attachmentFolderPath>>
  /\ UNCHANGED <<settingVars, previewVars>>

CaptureOutcomes == {"blob", "null", "throw"}

HasDataAlways(rec) == TRUE

\* true when renderCardToFile goes on to the write
HasData(rec) == rec.data = "blob"

\* the await of arrayBuffer() resolved: no data ends the export with a
\* notice; otherwise the path is built, looked up, and the write is issued
BufferDone(p) ==
  /\ proc[p].pc = "buffer"
  /\ LET rec == proc[p]
         rawNum == cache[rec.file]
         path == ExportPath(rec.file, rawNum, attachmentFolderPath)
     IN  proc' = [proc EXCEPT ![p] =
           IF ~HasData(rec)
           THEN Returned([rec EXCEPT !.notices = @ \cup {rec.file}])
           ELSE [rec EXCEPT !.pc = "write", !.frontmatter = rawNum,
                            !.path = path, !.mode = WriteMode(path)]]
  /\ UNCHANGED <<fm, cache, assets, mounts, clipboard, attachmentFolderPath>>
  /\ UNCHANGED <<settingVars, previewVars>>

WroteUnawaited(rec) == Returned(rec)

\* the write resolved: renderCardToFile awaits processFrontMatter
Wrote(rec) == [rec EXCEPT !.pc = "update"]

\* modifyBinary or createBinary settled.  createBinary rejects when a file
\* appeared at the path since the check; either may reject for other reasons
WriteDone(p, ok) ==
  /\ proc[p].pc = "write"
  /\ ok => (proc[p].mode = "modify" \/ ~FileExists(proc[p].path))
  /\ IF ok
     THEN /\ assets' = Written(proc[p].path, proc[p].card)
          /\ proc' = [proc EXCEPT ![p] = Wrote(proc[p])]
     ELSE /\ assets' = assets
          /\ proc' = [proc EXCEPT ![p] = Thrown(proc[p])]
  /\ UNCHANGED <<fm, cache, mounts, clipboard, attachmentFolderPath>>
  /\ UNCHANGED <<settingVars, previewVars>>

\* processFrontMatter settled: card-image is set, or the host rejected
UpdateDone(p, ok) ==
  /\ proc[p].pc = "update"
  /\ IF ok
     THEN /\ fm' = [fm EXCEPT ![proc[p].file].image = ImageLink(proc[p].path)]
          /\ proc' = [proc EXCEPT ![p] = Returned(proc[p])]
     ELSE /\ fm' = fm
          /\ proc' = [proc EXCEPT ![p] = Thrown(proc[p])]
  /\ UNCHANGED <<cache, assets, mounts, clipboard, attachmentFolderPath>>
  /\ UNCHANGED <<settingVars, previewVars>>

\* navigator.clipboard.write settled
ClipDone(p, ok) ==
  /\ proc[p].pc = "clip"
  /\ IF ok
     THEN /\ clipboard' = proc[p].card
          /\ proc' = [proc EXCEPT ![p].pc = "done"]
     ELSE /\ clipboard' = clipboard
          /\ proc' = [proc EXCEPT ![p] = Thrown(proc[p])]
  /\ UNCHANGED <<fm, cache, assets, mounts, attachmentFolderPath>>
  /\ UNCHANGED <<settingVars, previewVars>>

\* the metadata cache catches up with a note's frontmatter
CacheSync(d) ==
  /\ cache[d] # fm[d].number
  /\ cache' = [cache EXCEPT ![d] = fm[d].number]
  /\ UNCHANGED <<fm, assets, mounts, clipboard, attachmentFolderPath, proc>>
  /\ UNCHANGED <<settingVars, previewVars>>

\* ------------------------------------------------------- CardForgePreview
commandVars == <<fm, cache, assets, mounts, clipboard, attachmentFolderPath, proc>>

\* render() up to its await: nothing when the view is not active; else
\* lastEditor is refreshed and, when it has a file, renderCard is called
\* and builds the card from the metadata cache
RenderSync(r, isActive) ==
  LET editor == IF activeEditor # 0 THEN activeEditor ELSE lastEditor
  IN  IF ~isActive
      THEN /\ renders' = [renders EXCEPT ![r].pc = "done"]
           /\ lastEditor' = lastEditor
      ELSE /\ lastEditor' = editor
           /\ renders' = [renders EXCEPT ![r] =
                IF editor = 0
                THEN [IdleRender EXCEPT !.pc = "done"]
                ELSE [pc |-> "render", file |-> editor,
                      card |-> Bytes(editor, cache[editor])]]

\* the view is opened: it becomes active, its surface is emptied, the three
\* event handlers are registered and render() is called
onOpen ==
  /\ renders[1].pc = "idle"
  /\ active' = TRUE
  /\ contentEl' = NoBytes
  /\ RenderSync(1, TRUE)
  /\ UNCHANGED <<activeEditor, commandVars, settingVars>>

\* a file-open, modify or metadata-changed event calls render()
render(r) ==
  /\ r > 1
  /\ renders[r].pc = "idle" /\ renders[r - 1].pc # "idle"
  /\ RenderSync(r, active)
  /\ UNCHANGED <<active, contentEl, activeEditor, commandVars, settingVars>>

\* renderCard resolved: contentEl.replaceChildren(card)
replaceChildren(r) ==
  /\ renders[r].pc = "render"
  /\ contentEl' = renders[r].card
  /\ renders' = [renders EXCEPT ![r].pc = "done"]
  /\ UNCHANGED <<active, lastEditor, activeEditor, commandVars, settingVars>>

\* the workspace's active editor changes to another note, or to none
activeEditorChange(file) ==
  /\ file # activeEditor
  /\ activeEditor' = file
  /\ UNCHANGED <<active, lastEditor, contentEl, renders, commandVars, settingVars>>

onClose ==
  /\ active
  /\ active' = FALSE
  /\ UNCHANGED <<lastEditor, contentEl, activeEditor, renders, commandVars, settingVars>>

\* the preview, its event handlers and the workspace
NextPreview ==
  \/ onOpen
  \/ \E r \in Renders : render(r)
  \/ \E r \in Renders : replaceChildren(r)
  \/ \E file \in Targets : activeEditorChange(file)
  \/ onClose

\* numberCards alone, with the cache lagging behind its writes
NextNumber ==
  \/ \E p \in Procs : StartNumber(p)
  \/ \E p \in Procs : NumberStep(p)
  \/ \E d \in Notes : CacheSync(d)

\* the exports: the batch and the two interactive actions
NextExport ==
  \/ \E p \in Procs : StartBatch(p)
  \/ \E p \in Procs, target \in Targets : StartFile(p, target)
  \/ \E p \in Procs, target \in Targets : StartClipboard(p, target)
  \/ \E p \in Procs : RenderDone(p)
  \/ \E p \in Procs : FrameDone(p)
  \/ \E p \in Procs, outcome \in CaptureOutcomes : CaptureDone(p, outcome)
  \/ \E p \in Procs : BufferDone(p)
  \/ \E p \in Procs, ok \in BOOLEAN : WriteDone(p, ok)
  \/ \E p \in Procs, ok \in BOOLEAN : UpdateDone(p, ok)
  \/ \E p \in Procs, ok \in BOOLEAN : ClipDone(p, ok)
  \/ \E d \in Notes : CacheSync(d)

Next == NextNumber \/ NextExport \/ NextPreview

\* every command of the plugin, interleaved at the awaits
Spec == Init /\ [][Next]_vars

SpecNumber == Init /\ [][NextNumber]_vars

SpecExport == InitExport /\ [][NextExport]_vars

\* numberCards, which begins with getAllCards, over any small vault
SpecDiscover == InitDiscover /\ [][NextNumber]_vars

\* numberCards over notes whose numbers are distinct to begin with
SpecDistinct == InitDistinct /\ [][NextNumber]_vars

\* all commands, over a vault that also holds a note that is no card
SpecCommands == InitMixed /\ [][NextNumber \/ NextExport]_vars

\* the preview alone
SpecPreview == InitMixed /\ [][NextPreview]_vars

\* one render-to-file command, for the path it builds
NextFile ==
  \/ \E target \in Targets : StartFile(1, target)
  \/ RenderDone(1)
  \/ FrameDone(1)
  \/ \E outcome \in CaptureOutcomes : CaptureDone(1, outcome)
  \/ BufferDone(1)
  \/ \E ok \in BOOLEAN : WriteDone(1, ok)
  \/ \E ok \in BOOLEAN : UpdateDone(1, ok)

SpecPath == InitPath /\ [][NextFile]_vars

\* numbering runs and a render-to-file command over notes whose card-number
\* is missing, a number, or a string
SpecCards == Init /\ [][NextNumber \/ NextFile]_vars

\* ------------------------------------------------------------ numbering
Range(f) == {f[i] : i \in DOMAIN f}

NumberRuns == {p \in Procs : proc[p].kind = "number"}

\* the largest card-number a run found among its files, 0 when it found none
MaxSeen(p) ==
  LET found == {proc[p].seen[d].v :
                  d \in {e \in Range(proc[p].files) : proc[p].seen[e].t = "number"}}
  IN  CHOOSE m \in found \cup {0} : \A x \in found \cup {0} : x <= m

\* a run none of whose files carried a card-number that is not a number
SawNumbersOnly(p) == \A d \in Range(proc[p].files) : proc[p].seen[d].t # "string"

\* no other run was in flight while run p was
RanAlone(p) == \A q \in NumberRuns \ {p} : q \in proc[p].pred \/ p \in proc[q].pred

\* the files of run p that had no card-number when it started, in order
Lacking(p) == SelectSeq(proc[p].files, LAMBDA d : proc[p].seen[d].t = "undefined")

\* C1: no step of numberCards changes or removes a card-number that is
\* defined when the step is taken.
C1_NumberKept ==
  [][\A d \in Docs : fm[d].number.t # "undefined" => fm'[d].number = fm[d].number]_vars

\* a run has passed a note that carried a number and numbered a later one
C1_Witness ==
  \E p \in NumberRuns : \E i, j \in 1..Len(proc[p].files) :
    /\ i < j /\ j < proc[p].idx
    /\ proc[p].files[i] \notin Range(proc[p].assigned)
    /\ proc[p].files[j] \in Range(proc[p].assigned)
    /\ fm[proc[p].files[i]].number \in InitNumbers

\* C2: the k-th note a run assigns, in getAllCards order, holds M + k, where
\* M is the largest number among the run's files, 0 when there is none; run
\* alone on a settled cache, a completed run assigns exactly the notes that
\* lacked a number.
C2_NumberSequence ==
  \A p \in NumberRuns :
    SawNumbersOnly(p) =>
      /\ \A k \in 1..Len(proc[p].assigned) :
           fm[proc[p].assigned[k]].number = Num(MaxSeen(p) + k)
      /\ \A k, l \in 1..Len(proc[p].assigned) :
           k < l => proc[p].assigned[k] < proc[p].assigned[l]
      /\ (proc[p].pc = "done" /\ proc[p].fresh /\ RanAlone(p)) =>
           proc[p].assigned = Lacking(p)

\* a completed run over a numbered note and two unnumbered ones
C2_Witness ==
  \E p \in NumberRuns :
    /\ proc[p].pc = "done" /\ proc[p].fresh /\ RanAlone(p) /\ SawNumbersOnly(p)
    /\ MaxSeen(p) = 3
    /\ Len(proc[p].assigned) = 2
    /\ fm[proc[p].assigned[1]].number = Num(4)
    /\ fm[proc[p].assigned[2]].number = Num(5)

\* a run started after another run over the same notes had completed
Rerun(p) ==
  /\ proc[p].kind = "number"
  /\ \E q \in proc[p].pred :
       /\ proc[q].kind = "number" /\ proc[q].pc = "done"
       /\ proc[q].files = proc[p].files

\* C3: a numberCards run started after a completed run over the same notes
\* leaves every note's frontmatter as it is.
C3_Idempotent ==
  [][\A p \in Procs : (Rerun(p) /\ proc'[p] # proc[p]) => fm' = fm]_vars

\* the second run has gone through all its files after the first assigned
C3_Witness ==
  \E p \in Procs :
    /\ Rerun(p) /\ proc[p].pc = "done"
    /\ \E q \in proc[p].pred : proc[q].kind = "number" /\ proc[q].assigned # <<>>

\* -------------------------------------------------------------- exports
Exports == {p \in Procs : proc[p].kind \in {"file", "batch"}}

\* C4: a batch render whose export of one note fails goes on to the notes
\* after it: when the batch has ended, it has reached its last note.
C4_BatchContinues ==
  \A p \in Procs :
    (proc[p].kind = "batch" /\ proc[p].pc \in {"done", "rejected"}) =>
      proc[p].idx >= Len(proc[p].files)

\* C5: card-image is updated only once the asset is written, and no export
\* ends with its asset written and card-image not pointing at it.
C5_NoOrphan ==
  \A p \in Exports :
    /\ proc[p].pc = "update" => FileExists(proc[p].path)
    /\ (proc[p].pc = "rejected" /\ proc[p].stage = "update") =>
         fm[proc[p].file].image = ImageLink(proc[p].path)

\* the steps of p that come after a capture without data
NoData(p) == proc[p].data = "null" \/ proc'[p].data = "null"

\* C6: a capture without data leaves storage alone: the export that got it
\* writes no asset and no card-image, the clipboard action writes nothing to
\* the clipboard, and neither goes on to a write.
C6_NullBlobNoEffect ==
  [][\A p \in Procs :
       (NoData(p) /\ proc'[p] # proc[p]) =>
         /\ assets' = assets /\ fm' = fm /\ clipboard' = clipboard
         /\ proc'[p].pc \notin {"write", "update", "clip"}]_vars

\* an export and a clipboard action have both ended on a capture without data
C6_Witness ==
  \E p, q \in Procs :
    /\ proc[p].kind = "file" /\ proc[p].pc = "done" /\ proc[p].data = "null"
    /\ proc[p].notices = {proc[p].file}
    /\ proc[q].kind = "clipboard" /\ proc[q].pc = "done" /\ proc[q].data = "null"
    /\ assets = <<>> /\ clipboard = NoBytes

\* the commands inside renderCardToBlob
InRender == {p \in Procs : proc[p].pc \in {"render", "frame", "capture"}}

\* C7: a mount is attached only while its renderCardToBlob call is between
\* attaching it and the end of the capture, so the attached mounts never
\* outnumber the renders in flight.
C7_MountDetached ==
  /\ \A p \in mounts : proc[p].pc \in {"frame", "capture"}
  /\ Cardinality(mounts) <= Cardinality(InRender)

\* one render ended without data and one by a rejected capture; none is mounted
C7_Witness ==
  \E p, q \in Procs :
    /\ proc[p].pc = "rejected" /\ proc[p].stage = "capture"
    /\ proc[q].pc = "done" /\ proc[q].data = "null"
    /\ mounts = {}

\* p exports a note that an export which had ended before p began wrote out
\* under the same type, number, base name and attachment setting
SecondExport(p, q) ==
  /\ p \in Exports /\ q \in Exports /\ q \in proc[p].pred
  /\ proc[q].pc = "done" /\ proc[q].mode # "none"
  /\ proc[p].mode # "none"
  /\ proc[p].file = proc[q].file
  /\ proc[p].frontmatter = proc[q].frontmatter

AssetPaths == {assets[i].path : i \in DOMAIN assets}

\* C8: the second of two exports of a note with unchanged metadata takes
\* the first one's path, overwrites the asset there, and its write leaves
\* the set of asset paths as it was.
C8_SamePath ==
  [][\A p, q \in Procs :
       (SecondExport(p, q) /\ proc[p].pc = "write" /\ proc'[p].pc # "write") =>
         /\ proc[p].path = proc[q].path
         /\ proc[p].mode = "modify"
         /\ AssetPaths' = AssetPaths
         /\ Len(assets') = Len(assets)
         /\ proc'[p].pc = "update" =>
              \E i \in DOMAIN assets' :
                assets'[i] = [path |-> proc[p].path, bytes |-> proc[p].card]]_vars

\* the second export has overwritten the one asset of the vault
C8_Witness ==
  \E p, q \in Procs :
    /\ SecondExport(p, q) /\ proc[p].pc = "done"
    /\ Len(assets) = 1 /\ assets[1].path = proc[q].path

\* the target of a wiki link, embedded or not
LinkTarget(text) ==
  LET bare == IF text # <<>> /\ Head(text) = "!" THEN Tail(text) ELSE text
  IN  SubSeq(bare, 3, Len(bare) - 2)

\* C9: the step that completes an export leaves in card-image a link that
\* does not start with "!" and whose target is the path built for the note
\* from the metadata the export read, where the asset now is.
C9_ImageLink ==
  [][\A p \in Exports :
       (proc[p].pc = "update" /\ proc'[p] # proc[p] /\ proc'[p].pc # "rejected") =>
         LET image == fm'[proc[p].file].image
         IN  /\ image # NoImage
             /\ Head(image) # "!"
             /\ LinkTarget(image) =
                  ExportPath(proc[p].file, proc[p].frontmatter, attachmentFolderPath)
             /\ LinkTarget(image) \in AssetPaths]_vars

\* an export of the first note, numbered 3, has completed
C9_Witness ==
  \E p \in Procs :
    /\ proc[p].kind = "file" /\ proc[p].pc = "done" /\ proc[p].mode # "none"
    /\ proc[p].file = 1 /\ proc[p].frontmatter = Num(3)
    /\ LinkTarget(fm[1].image) = proc[p].path

\* ------------------------------------------------------ path construction
DigitChar(i) == <<"0", "1", "2", "3", "4", "5", "6", "7", "8", "9">>[i + 1]

\* three zero-padded digits up to 999, the plain decimal form above
PaddedForm(n) ==
  IF n < 1000
  THEN <<DigitChar(n \div 100), DigitChar((n \div 10) % 10), DigitChar(n % 10)>>
  ELSE Digits(n)

\* s is base lower-cased with every space replaced by "-"
IsNormalizedTitle(s, base) ==
  /\ Len(s) = Len(base)
  /\ \A i \in 1..Len(base) :
       s[i] = IF base[i] = " " THEN "-" ELSE LowerChar(base[i])

\* the attachment folder of a note: its own folder when the setting is
\* unset, the named subfolder of its folder for "./x", else the setting
AttachmentFolderOf(d, setting) ==
  CASE setting = <<>> -> ParentPath(d)
    [] Len(setting) >= 2 /\ setting[1] = "." /\ setting[2] = "/" ->
         ParentPath(d) \o <<"/">> \o SubSeq(setting, 3, Len(setting))
    [] OTHER -> setting

\* path is full as the vault names it: without the slashes full begins with
IsVaultPath(path, full) ==
  /\ path = <<>> \/ Head(path) # "/"
  /\ \E k \in 0..Len(full) :
       /\ \A i \in 1..k : full[i] = "/"
       /\ path = SubSeq(full, k + 1, Len(full))

\* the type and number an export writes into the file name
TypeText(d) == IF CardType(d) = <<>> THEN <<"u", "n", "k", "n", "o", "w", "n">> ELSE CardType(d)
NumberText(val) == PaddedForm(IF val.t = "number" THEN val.v ELSE 0)

MyCardPng ==
  <<"c", "a", "r", "d", "s", "/", "c", "f", "-", "h", "e", "r", "o", "-",
    "0", "0", "3", "-", "m", "y", "-", "c", "a", "r", "d", ".", "p", "n", "g">>

\* C10: an export writes to <attachment-folder>/cf-<type>-<padded-number>-
\* <normalized-title>.png as the vault names that path (no leading "/"),
\* the title being the base name lower-cased with every space replaced by
\* "-"; a note without a type is written as "unknown", one without a number
\* as 000.  "My Card", hero, 3, folder "cards" gives
\* cards/cf-hero-003-my-card.png.
C10_ExportPath ==
  \A p \in Exports :
    proc[p].mode # "none" =>
      LET d == proc[p].file
          head == AttachmentFolderOf(d, attachmentFolderPath)
                    \o <<"/", "c", "f", "-">> \o TypeText(d) \o <<"-">>
                    \o NumberText(proc[p].frontmatter) \o <<"-">>
          title == SubSeq(proc[p].path, Len(proc[p].path) - Len(Basename(d)) - 3,
                          Len(proc[p].path) - 4)
      IN  /\ IsNormalizedTitle(title, Basename(d))
          /\ IsVaultPath(proc[p].path, head \o title \o <<".", "p", "n", "g">>)
          /\ (d = 1 /\ proc[p].frontmatter = Num(3) /\ attachmentFolderPath = FixedFolder)
               => proc[p].path = MyCardPng

\* the export of "My Card", hero, 3 into "cards" has built its path
C10_Witness ==
  \E p \in Exports :
    /\ proc[p].mode # "none" /\ proc[p].file = 1 /\ proc[p].frontmatter = Num(3)
    /\ attachmentFolderPath = FixedFolder /\ proc[p].path = MyCardPng

\* so has the export of a note in the vault root with two spaces in its name
C10_WitnessRoot ==
  \E p \in Exports :
    /\ proc[p].mode # "none" /\ proc[p].file = 2 /\ attachmentFolderPath = <<>>
    /\ Head(proc[p].path) = "c"

\* -------------------------------------------------------------- discovery
\* the tag the plugin looks for: the setting, "card" when it is empty
ConfiguredTag == IF cardTag = "" THEN "card" ELSE cardTag

\* path lies inside folder
UnderFolder(path, folder) == StartsWith(path, folder \o <<"/">>)

\* the notes batch discovery is to return
Wanted(d) ==
  /\ ConfiguredTag \in Tags(d)
  /\ ~(templatesEnabled /\ UnderFolder(FilePath(d), TemplateFolder))

\* C11: getAllCards returns exactly the notes of the vault, in its order,
\* whose tag list holds the card tag as that very string and, with the
\* templates plugin enabled, whose path is not under the template folder.
C11_Discovery ==
  \A p \in Procs :
    proc[p].kind \in {"number", "batch"} => proc[p].files = SelectSeq(listing, Wanted)

\* ---------------------------------------------------- interactive actions
Interactive == {p \in Procs : proc[p].kind \in {"file", "clipboard"}}

\* C12: renderToClipboard and renderToFile never end in a rejection: an
\* action that did not get through has ended normally with a Notice shown.
C12_NoUncaughtFault ==
  \A p \in Interactive :
    /\ proc[p].pc # "rejected"
    /\ (proc[p].pc = "done" /\ proc[p].data # "blob") => proc[p].notices # {}

\* ------------------------------------------------------------ batch order
Batches == {p \in Procs : proc[p].kind = "batch"}

\* C13: a batch has one export in flight, that of its current note, and
\* goes on to the next note only from the last step of that export: the
\* card-image update after the write, or the Notice of a capture without
\* data; by then the export's mount is detached, and the next export
\* starts from its beginning.
C13_OneAtATime ==
  [][\A p \in Batches :
       /\ proc[p].pc \notin {"done", "rejected"} => proc[p].file = proc[p].files[proc[p].idx]
       /\ proc'[p].idx # proc[p].idx =>
            /\ proc'[p].idx = proc[p].idx + 1
            /\ \/ /\ proc[p].pc = "update"
                  /\ FileExists(proc[p].path)
                  /\ fm'[proc[p].file].image = ImageLink(proc[p].path)
               \/ /\ proc[p].pc = "buffer"
                  /\ proc[p].data = "null"
                  /\ proc[p].file \in proc'[p].notices
            /\ p \notin mounts'
            /\ proc'[p].pc = "render"
            /\ proc'[p].file = proc[p].files[proc[p].idx + 1]
            /\ proc'[p].mode = "none"]_vars

\* a batch over three notes has ended: the capture of the first gave no
\* data, the second and the third were exported one after the other
C13_Witness ==
  \E p \in Batches :
    /\ proc[p].pc = "done" /\ Len(proc[p].files) = 3 /\ proc[p].idx = 3
    /\ proc[p].notices = {proc[p].files[1]}
    /\ fm[proc[p].files[2]].image # NoImage
    /\ fm[proc[p].files[3]].image # NoImage
    /\ Len(assets) = 2

\* ------------------------------------------------- malformed card-number
\* C14: a card-number that is not a number counts as absent wherever it is
\* read: the card's footer shows no number, the export path is the one of
\* an unnumbered note, and numberCards seeds its counter from the numbers
\* alone, so the k-th note it assigns holds M + k, M being the largest
\* number among its files.
C14_StringAbsent ==
  /\ \A p \in Exports :
        /\ (proc[p].file # 0 /\ cache[proc[p].file].t = "string") =>
              proc[p].card.number = <<>>
        /\ (proc[p].mode # "none" /\ proc[p].frontmatter.t = "string") =>
              proc[p].path = ExportPath(proc[p].file, Undef, attachmentFolderPath)
  /\ \A p \in NumberRuns :
        /\ proc[p].nextNum = MaxSeen(p) + 1 + Len(proc[p].assigned)
        /\ \A k \in 1..Len(proc[p].assigned) :
              fm[proc[p].assigned[k]].number = Num(MaxSeen(p) + k)

\* ---------------------------------------------------------------- padding
\* the characters of the export path that stand where its number is
\* written: the len characters before "-<name>.png"
NumberSegment(path, d, len) ==
  LET tail == Len(Basename(d)) + 5
  IN  SubSeq(path, Len(path) - tail - len + 1, Len(path) - tail)

\* C15: for a card number n the footer of the card and the number in the
\* export path are both the three-digit zero-padded form of n up to 999
\* and its plain decimal form above: 7 gives 007, 999 gives 999, 1000
\* gives 1000.
C15_Padding ==
  \A p \in Exports :
    (proc[p].mode # "none" /\ proc[p].frontmatter.t = "number") =>
      LET n == proc[p].frontmatter.v
          form == PaddedForm(n)
          shown == proc[p].card.number
          written == NumberSegment(proc[p].path, proc[p].file, Len(form))
      IN  /\ shown = form
          /\ written = form
          /\ proc[p].path[Len(proc[p].path) - Len(Basename(proc[p].file)) - 5 - Len(form)] = "-"
          /\ shown = written
          /\ n <= 999 => Len(shown) = 3
          /\ n = 7 => shown = <<"0", "0", "7">>
          /\ n = 999 => shown = <<"9", "9", "9">>
          /\ n = 1000 => shown = <<"1", "0", "0", "0">>

\* a note numbered 1000 was exported with 1000 in its footer and its path
C15_Witness ==
  \E p \in Exports :
    /\ proc[p].pc = "done" /\ proc[p].mode # "none"
    /\ proc[p].frontmatter = Num(1000)
    /\ proc[p].card.number = <<"1", "0", "0", "0">>
    /\ NumberSegment(proc[p].path, proc[p].file, 4) = <<"1", "0", "0", "0">>

C16_WitnessTitle ==
  \E p \in Exports :
    /\ proc[p].pc = "done" /\ proc[p].file = 2
    /\ proc[p].card.title = <<"A", "l", "p", "h", "a">>

\* ------------------------------------------------------------------ frame
EndsWith(s, suffix) ==
  Len(s) >= Len(suffix) /\ SubSeq(s, Len(s) - Len(suffix) + 1, Len(s)) = suffix

NotePaths == {FilePath(d) : d \in Notes}

\* C17: no step adds a note to the vault or removes one, and none removes
\* an asset.  A step that changes the assets is the write of an export: it
\* changes the asset at the export's computed path, a .png that is no note,
\* and nothing else.  A step that changes a note's frontmatter changes one
\* note only: its card-image, as the update of an export of that note, or
\* its card-number, as a step of numberCards on a note that is a card.
C17_Frame ==
  [][/\ listing' = listing
     /\ \A i \in DOMAIN assets : i \in DOMAIN assets' /\ assets'[i].path = assets[i].path
     /\ assets' # assets =>
          \E p \in Exports :
            /\ proc[p].pc = "write" /\ proc'[p] # proc[p]
            /\ proc[p].path =
                 ExportPath(proc[p].file, proc[p].frontmatter, attachmentFolderPath)
            /\ EndsWith(proc[p].path, <<".", "p", "n", "g">>)
            /\ proc[p].path \notin NotePaths
            /\ fm' = fm
            /\ AssetPaths' = AssetPaths \cup {proc[p].path}
            /\ \A i \in DOMAIN assets' :
                 \/ i \in DOMAIN assets /\ assets'[i] = assets[i]
                 \/ assets'[i].path = proc[p].path
     /\ fm' # fm =>
          /\ assets' = assets
          /\ \E d \in Notes :
               /\ \A e \in Notes \ {d} : fm'[e] = fm[e]
               /\ \/ /\ fm'[d].number = fm[d].number
                     /\ \E p \in Exports :
                          proc[p].pc = "update" /\ proc[p].file = d /\ proc'[p] # proc[p]
                  \/ /\ fm'[d].image = fm[d].image
                     /\ Wanted(d)
                     /\ \E i \in DOMAIN listing : listing[i] = d
                     /\ \E p \in NumberRuns :
                          proc[p].pc = "number" /\ proc'[p] # proc[p]]_vars

\* a numbering run and an export of the untagged note have both ended: the
\* two cards are numbered, the untagged note has its image and no number
C17_Witness ==
  \E p, q \in Procs :
    /\ proc[p].kind = "number" /\ proc[p].pc = "done" /\ proc[p].assigned # <<>>
    /\ proc[q].kind = "file" /\ proc[q].pc = "done" /\ proc[q].file = 4
    /\ fm[4].number = Undef /\ fm[4].image # NoImage
    /\ fm[1].number # Undef /\ fm[2].number # Undef
    /\ Len(assets) = 1

\* ------------------------------------------------------------- uniqueness
\* C18: no two notes hold the same card-number, however the runs of
\* numberCards overlap and however far the cache lags.
C18_Unique ==
  \A d, e \in Notes :
    (d # e /\ fm[d].number.t = "number" /\ fm[e].number.t = "number") =>
      fm[d].number.v # fm[e].number.v

\* ---------------------------------------------------------------- preview
\* the render calls that got as far as building a card
Rendering == {r \in Renders : renders[r].file # 0}

\* the one among them that was triggered last
LastRendering == CHOOSE r \in Rendering : \A q \in Rendering : q <= r

\* C19: once every render call has completed, the preview shows the card
\* built by the call triggered last, which is the card of the note that
\* lastEditor names.
C19_LastRenderShown ==
  (Rendering # {} /\ \A r \in Renders : renders[r].pc # "render") =>
    /\ contentEl = renders[LastRendering].card
    /\ contentEl.doc = lastEditor

\* ------------------------------------------------------------ racing writes
\* C20: an export that is about to write through createBinary finds no
\* asset at its path, so the write does not fail for an asset being there
\* already, and the vault never holds two assets under one path.
C20_CreateOnlyAbsent ==
  /\ \A p \in Exports :
        (proc[p].pc = "write" /\ proc[p].mode = "create") => ~FileExists(proc[p].path)
  /\ \A i, j \in DOMAIN assets : assets[i].path = assets[j].path => i = j

\* ----------------------------------------------------------- closed preview
\* the view was opened and onClose has since set it inactive
Closed == ~active /\ renders[1].pc # "idle"

\* C21: once the preview is closed no step replaces the children of its
\* surface, the completion of a render call begun before onClose included.
C21_ClosedNotRendered ==
  [][Closed => (contentEl' = contentEl /\ \A r \in Renders :
                  renders[r].pc = "render" => renders'[r].pc = "render")]_vars

====
